---- MODULE Spec2Model ----
(***************************************************************************)
(* State-machine model of ImprovedStringArtGenerator                       *)
(* (String-Art-Portrait-Generator/Backend.py): nail layout, Bresenham      *)
(* rasterisation with its memo table, and the greedy path synthesis loop.  *)
(*                                                                         *)
(* The generator is modelled at a small configuration (few nails, a small  *)
(* canvas).  Pixel arrays are functions over the row-major index.          *)
(* Scores are kept as exact fractions: a score is the record               *)
(* [num2, den] standing for num2 / (2 * den).                              *)
(***************************************************************************)
EXTENDS Integers, Sequences, FiniteSets, TLC

(* ------------------------------------------------------------------ *)
(* Configuration of the modelled generator                            *)
(* ------------------------------------------------------------------ *)

\* constructor arguments (num_nails, max_lines, canvas_size), scaled down
NumNails == 8
MaxLines == 102
CanvasSize == 34

\* self.line_opacity and self.min_distance, scaled to the small layout
LineOpacity == 100
MinDistance == 2

\* recent_limit, scaled to the small layout
RecentLimit == 1

\* number of direct get_line_points calls explored by SpecCache
MaxCalls == 2

\* margin left for the nails (radius = center - margin), scaled with the canvas
NailMargin == 9

\* the canvas clamp: min(255, ...)
MaxDarkness == 255

\* low_score_count > 50: random jump;  low_score_count > 100: stop early
StuckBound == 50
TerminateBound == 100

\* Python's None, where a nail index is expected
None == 0 - 1

\* F(v), with v evaluated once, before F is applied: a local variable of the
\* code, assigned once and read many times
Bound(v, F(_)) == CHOOSE r \in { F(x) : x \in { v } } : TRUE

Abs(n) == IF n < 0 THEN -n ELSE n
Min(a, b) == IF a < b THEN a ELSE b
Max(a, b) == IF a > b THEN a ELSE b

\* self.num_nails, as the constructor call set it
VARIABLE num_nails

NailIds == 0 .. (num_nails - 1)
Coords == 0 .. (CanvasSize - 1)
\* a square array is held row-major, as numpy lays it out: element [y, x] is
\* at index y * CanvasSize + x
Pixels == 0 .. (CanvasSize * CanvasSize - 1)
At(y, x) == y * CanvasSize + x
PixelX(p) == p % CanvasSize
PixelY(p) == p \div CanvasSize

(* ------------------------------------------------------------------ *)
(* math.cos / math.sin in fixed point                                 *)
(* ------------------------------------------------------------------ *)

\* fixed-point unit: a real v is held as the integer v * FixedOne.  The
\* fixed-point layout equals the float layout of generate_nails for
\* (NumNails, CanvasSize, NailMargin) = (8, 34, 9) and (9, 35, 10).
FixedOne == 4 * 10000

\* pi / 4 in fixed point
QuarterPi == (31416 * FixedOne) \div (4 * 10000)

\* integer division truncating toward zero
TruncDiv(a, b) == IF a >= 0 THEN a \div b ELSE -((-a) \div b)

\* Maclaurin series of cos on [0, pi/4]: 1 - x^2/2! + x^4/4! - ...
CosSmall(x) ==
    LET x2 == (x * x) \div FixedOne
        t1 == (FixedOne * x2) \div (FixedOne * 2)
        t2 == (t1 * x2) \div (FixedOne * 12)
        t3 == (t2 * x2) \div (FixedOne * 30)
        t4 == (t3 * x2) \div (FixedOne * 56)
    IN  FixedOne - t1 + t2 - t3 + t4

\* Maclaurin series of sin on [0, pi/4]: x - x^3/3! + x^5/5! - ...
SinSmall(x) ==
    LET x2 == (x * x) \div FixedOne
        t1 == (x * x2) \div (FixedOne * 6)
        t2 == (t1 * x2) \div (FixedOne * 20)
        t3 == (t2 * x2) \div (FixedOne * 42)
        t4 == (t3 * x2) \div (FixedOne * 72)
    IN  x - t1 + t2 - t3 + t4

\* <<cos, sin>> of the angle 2 * pi * i / n, by octant reduction
CosSin(i, n) ==
    LET octant == (8 * i) \div n
        rem    == (8 * i) % n
        x      == (QuarterPi * rem) \div n
        y      == (QuarterPi * (n - rem)) \div n
    IN  CASE octant = 0 -> << CosSmall(x),  SinSmall(x) >>
          [] octant = 1 -> << SinSmall(y),  CosSmall(y) >>
          [] octant = 2 -> << -SinSmall(x), CosSmall(x) >>
          [] octant = 3 -> << -CosSmall(y), SinSmall(y) >>
          [] octant = 4 -> << -CosSmall(x), -SinSmall(x) >>
          [] octant = 5 -> << -SinSmall(y), -CosSmall(y) >>
          [] octant = 6 -> << SinSmall(x),  -CosSmall(x) >>
          [] OTHER      -> << CosSmall(y),  -SinSmall(y) >>

\* int(center + radius * c) for a fixed-point c; the small guard absorbs the
\* series' truncation error at values that are exact integers (cos = 0, 1/2, 1)
IntOf(center, radius, c) ==
    TruncDiv(center * FixedOne + radius * c + FixedOne \div 2000, FixedOne)

(* ------------------------------------------------------------------ *)
(* generate_nails                                                     *)
(* ------------------------------------------------------------------ *)

\* the nail positions for n nails
NailLayout(n) ==
    LET center == CanvasSize \div 2
        radius == center - NailMargin
    IN  [i \in 0 .. (n - 1) |->
            LET cs == CosSin(i, n)
            IN  [x |-> IntOf(center, radius, cs[1]),
                 y |-> IntOf(center, radius, cs[2])]]

generate_nails == NailLayout(num_nails)

(* ------------------------------------------------------------------ *)
(* bresenham_line                                                     *)
(* ------------------------------------------------------------------ *)

InCanvas(x, y) == 0 <= x /\ x < CanvasSize /\ 0 <= y /\ y < CanvasSize

\* a pass that appends the point wherever it lies
LineVisitAll(points, x, y) == Append(points, << x, y >>)

\* if 0 <= x < self.canvas_size and 0 <= y < self.canvas_size:
\*     points.append((x, y))
LineVisit(points, x, y) ==
    IF InCanvas(x, y) THEN Append(points, << x, y >>) ELSE points

\* a pass whose y test reads err after the x step has changed it
LineAdvanceLate(s, dx, dy, sx, sy) ==
    LET stepx == 2 * s.err > -dy
        err1  == IF stepx THEN s.err - dy ELSE s.err
        stepy == 2 * err1 < dx
    IN  [x      |-> IF stepx THEN s.x + sx ELSE s.x,
         y      |-> IF stepy THEN s.y + sy ELSE s.y,
         err    |-> IF stepy THEN err1 + dx ELSE err1,
         points |-> s.points]

\* the rest of a pass of "while True", from s = [x, y, err, points]:
\* e2 = 2 * err, then the x step and the y step
LineAdvance(s, dx, dy, sx, sy) ==
    LET e2    == 2 * s.err
        stepx == e2 > -dy
        err1  == IF stepx THEN s.err - dy ELSE s.err
        stepy == e2 < dx
    IN  [x      |-> IF stepx THEN s.x + sx ELSE s.x,
         y      |-> IF stepy THEN s.y + sy ELSE s.y,
         err    |-> IF stepy THEN err1 + dx ELSE err1,
         points |-> s.points]

bresenham_line(x1, y1, x2, y2) ==
    LET dx == Abs(x2 - x1)
        dy == Abs(y2 - y1)
        sx == IF x1 < x2 THEN 1 ELSE -1
        sy == IF y1 < y2 THEN 1 ELSE -1
        RECURSIVE Loop(_)
        \* one pass of "while True" on s = [x, y, err, points]; the values of
        \* the next pass are bound before it starts
        Loop(s) ==
            LET pts == LineVisit(s.points, s.x, s.y)
            IN  IF s.x = x2 /\ s.y = y2 THEN pts
                ELSE Bound(LineAdvance([x |-> s.x, y |-> s.y, err |-> s.err,
                                        points |-> pts], dx, dy, sx, sy), Loop)
    IN  Loop([x |-> x1, y |-> y1, err |-> dx - dy, points |-> << >>])

PointSet(points) == { points[k] : k \in 1 .. Len(points) }

(* ------------------------------------------------------------------ *)
(* State                                                              *)
(* ------------------------------------------------------------------ *)

VARIABLES
    pc,                  \* "constructed" | "nails" | "loop" | "stopped" | "returned"
    nails,               \* self.nails
    paths,               \* self.paths
    line_cache,          \* self.line_cache
    target_image,        \* the darkness target passed to generate_string_art_greedy
    current_canvas,      \* current_canvas
    current_nail,        \* current_nail
    recent_connections,  \* recent_connections
    low_score_count,     \* low_score_count
    iteration,           \* the for loop's index: iterations completed so far
    call_args,           \* arguments of the last direct get_line_points call
    call_ret,            \* what that call returned
    calls,               \* number of direct get_line_points calls made
    commits,             \* history: number of committing iterations
    since_commit,        \* history: non-committing iterations since the last commit
    since_restart,       \* history: pairs committed since the last random jump
    restart_marks,       \* history: path lengths at which a random jump happened
    scan_scores,         \* history: the score of each candidate the last scan scored
    count_peak,          \* history: the highest low_score_count of the last iteration
    elapsed,             \* time.time() - start_time, in clock ticks
    req_pc,              \* per request to the endpoint: the handler's position
    req_refs,            \* per request: the objects its names are bound to
    req_done,            \* per request: loop iterations its synthesis has run
    heap_next,           \* the identity the next new object gets
    writers,             \* history: <<request, object>> for every mutation
    is_monitoring,       \* AutoScreenLockApp.is_monitoring
    last_face_time,      \* AutoScreenLockApp.last_face_time, in clock ticks
    cap_open,            \* FaceDetector.cap is set and opened
    now,                 \* time.time(), in clock ticks
    thread_pc,           \* per monitoring thread: its position in monitoring_loop
    face_detected,       \* per monitoring thread: its local face_detected
    time_since_face,     \* per monitoring thread: its local time_since_face
    lock_calls,          \* history: calls of lock_screen by monitoring threads
    last_detection,      \* history: time of the last detected face, or None
    line_pc,             \* a direct bresenham_line call: "idle" | "while" | "returned"
    line_args,           \* its arguments << x1, y1, x2, y2 >>
    line_s,              \* its locals [x, y, err, points]
    line_passes,         \* history: passes of its loop that went past the break
    score_args,          \* arguments of the last direct calculate_line_score call
    score_ret            \* what that call returned

synth_vars == << paths, target_image, current_canvas, current_nail,
                 recent_connections, low_score_count, iteration >>
call_vars  == << call_args, call_ret, calls >>
hist_vars  == << commits, since_commit, since_restart, restart_marks,
                 scan_scores, count_peak >>
\* what the constructor fixes for the lifetime of the generator
config_vars == << num_nails >>
clock_vars == << elapsed >>
\* the requests the service is handling and the objects they created
request_vars == << req_pc, req_refs, req_done, heap_next, writers >>
\* the screen lock application and its monitoring threads
lock_vars == << is_monitoring, last_face_time, cap_open, now, thread_pc,
                face_detected, time_since_face, lock_calls, last_detection >>
\* a bresenham_line call made directly
raster_vars == << line_pc, line_args, line_s, line_passes >>
\* calculate_line_score calls made directly
score_vars == << score_args, score_ret >>
\* what no step of the synthesis loop writes
frame_vars == << config_vars, clock_vars, request_vars, lock_vars, raster_vars,
                 score_vars >>
vars == << pc, nails, line_cache, synth_vars, call_vars, hist_vars, frame_vars >>

(* ------------------------------------------------------------------ *)
(* get_line_points                                                    *)
(* ------------------------------------------------------------------ *)

ConnectionKey(a, b) == << Min(a, b), Max(a, b) >>

\* a get_line_points without the "if key not in self.line_cache" test: the line
\* is rasterised and stored on every call
CacheAfterGetAlways(cache, nl, start_nail, end_nail) ==
    LET key == ConnectionKey(start_nail, end_nail)
        line == bresenham_line(nl[start_nail].x, nl[start_nail].y,
                               nl[end_nail].x, nl[end_nail].y)
    IN  [k \in DOMAIN cache \cup {key} |-> IF k = key THEN line ELSE cache[k]]

\* the cache a call leaves behind
CacheAfterGet(cache, nl, start_nail, end_nail) ==
    LET key == ConnectionKey(start_nail, end_nail)
    IN  IF key \in DOMAIN cache
        THEN cache
        ELSE cache @@ (key :> bresenham_line(nl[start_nail].x, nl[start_nail].y,
                                             nl[end_nail].x, nl[end_nail].y))

\* [cache, points]: the cache after the call and the returned sequence
get_line_points(cache, nl, start_nail, end_nail) ==
    Bound(CacheAfterGet(cache, nl, start_nail, end_nail),
          LAMBDA after : [cache  |-> after,
                          points |-> after[ConnectionKey(start_nail, end_nail)]])

(* ------------------------------------------------------------------ *)
(* calculate_line_score                                               *)
(* ------------------------------------------------------------------ *)

\* a per-pixel score whose overshoot penalty has lost its minus sign
PixelScore2Reinforce(target_darkness, current_darkness) ==
    LET new_darkness == Min(MaxDarkness, current_darkness + LineOpacity)
    IN  IF target_darkness > current_darkness
        THEN 2 * Min(target_darkness - current_darkness, LineOpacity)
        ELSE new_darkness - target_darkness

\* a per-pixel score whose new_darkness is not clamped at 255
PixelScore2NoClamp(target_darkness, current_darkness) ==
    LET new_darkness == current_darkness + LineOpacity
    IN  IF target_darkness > current_darkness
        THEN 2 * Min(target_darkness - current_darkness, LineOpacity)
        ELSE -(new_darkness - target_darkness)

\* twice the per-pixel score
PixelScore2(target_darkness, current_darkness) ==
    LET new_darkness == Min(MaxDarkness, current_darkness + LineOpacity)
    IN  IF target_darkness > current_darkness
        THEN 2 * Min(target_darkness - current_darkness, LineOpacity)
        ELSE -(new_darkness - target_darkness)

ZeroScore == [num2 |-> 0, den |-> 1]
NegInf == [num2 |-> 0 - 1, den |-> 0]
\* min_score_threshold = 0.5
MinScoreThreshold == [num2 |-> 1, den |-> 1]

\* a > b on scores
ScoreGT(a, b) == a.num2 * b.den > b.num2 * a.den

\* a target array: rows x cols values held row-major in data
TargetArray(rows, cols, data) == [rows |-> rows, cols |-> cols, data |-> data]

\* target_image[y, x] for y, x >= 0: numpy raises IndexError outside the array
TargetInRange(target, y, x) == y < target.rows /\ x < target.cols
TargetAt(target, y, x) == target.data[y * target.cols + x]

\* <<total_score * 2, valid_points, raised>> of the loop over line_points,
\* from acc = <<k, total_score * 2, valid_points>> on; raised is the IndexError
\* of a target read
RECURSIVE ScoreSum(_, _, _, _)
ScoreSum(acc, line_points, target, canvas) ==
    IF acc[1] > Len(line_points) THEN << acc[2], acc[3], FALSE >>
    ELSE LET x == line_points[acc[1]][1]
             y == line_points[acc[1]][2]
         IN  IF InCanvas(x, y)
             THEN IF TargetInRange(target, y, x)
                  THEN Bound(<< acc[1] + 1,
                                acc[2] + PixelScore2(TargetAt(target, y, x),
                                                     canvas[At(y, x)]),
                                acc[3] + 1 >>,
                             LAMBDA next : ScoreSum(next, line_points, target, canvas))
                  ELSE << acc[2], acc[3], TRUE >>
             ELSE Bound(<< acc[1] + 1, acc[2], acc[3] >>,
                        LAMBDA next : ScoreSum(next, line_points, target, canvas))

\* [cache, score, raised]
calculate_line_score(target, canvas, cache, nl, start_nail, end_nail) ==
    Bound(get_line_points(cache, nl, start_nail, end_nail),
          LAMBDA got :
            Bound(ScoreSum(<< 1, 0, 0 >>, got.points, target, canvas),
                  LAMBDA acc :
                    [cache |-> got.cache,
                     score |-> IF Len(got.points) = 0 \/ acc[2] = 0
                               THEN ZeroScore
                               ELSE [num2 |-> acc[1], den |-> acc[2]],
                     raised |-> Len(got.points) # 0 /\ acc[3]]))

(* ------------------------------------------------------------------ *)
(* is_valid_connection                                                *)
(* ------------------------------------------------------------------ *)

CircularDistance(a, b) == Min(Abs(b - a), num_nails - Abs(b - a))

\* an is_valid_connection that forgets the minimum distance
is_valid_connection_any(cur, target_nail) ==
    CircularDistance(cur, target_nail) >= 0

is_valid_connection(cur, target_nail) ==
    CircularDistance(cur, target_nail) >= MinDistance

(* ------------------------------------------------------------------ *)
(* generate_string_art_greedy: the candidate scan of one iteration    *)
(* ------------------------------------------------------------------ *)

\* a scan that takes a candidate whose score equals the best so far
ConsiderCandidateLastBest(st, target_nail, target, canvas, nl, cur, recent) ==
    IF \/ target_nail = cur
       \/ ~ is_valid_connection(cur, target_nail)
       \/ ConnectionKey(cur, target_nail) \in recent
    THEN st
    ELSE CHOOSE next \in
            { [cache      |-> r.cache,
               best_score |-> IF ~ r.raised /\ ~ ScoreGT(st.best_score, r.score)
                              THEN r.score ELSE st.best_score,
               best_nail  |-> IF ~ r.raised /\ ~ ScoreGT(st.best_score, r.score)
                              THEN target_nail ELSE st.best_nail,
               scores     |-> IF r.raised THEN st.scores
                              ELSE st.scores @@ (target_nail :> r.score),
               raised     |-> r.raised]
              : r \in { calculate_line_score(target, canvas, st.cache, nl,
                                             cur, target_nail) } } : TRUE

\* one candidate of the scan: the loop body for target_nail, on st; scores
\* keeps the score each candidate got
ConsiderCandidate(st, target_nail, target, canvas, nl, cur, recent) ==
    IF \/ target_nail = cur
       \/ ~ is_valid_connection(cur, target_nail)
       \/ ConnectionKey(cur, target_nail) \in recent
    THEN st
    ELSE CHOOSE next \in
            { [cache      |-> r.cache,
               best_score |-> IF ~ r.raised /\ ScoreGT(r.score, st.best_score)
                              THEN r.score ELSE st.best_score,
               best_nail  |-> IF ~ r.raised /\ ScoreGT(r.score, st.best_score)
                              THEN target_nail ELSE st.best_nail,
               scores     |-> IF r.raised THEN st.scores
                              ELSE st.scores @@ (target_nail :> r.score),
               raised     |-> r.raised]
              : r \in { calculate_line_score(target, canvas, st.cache, nl,
                                             cur, target_nail) } } : TRUE

\* for target_nail in range(self.num_nails): ... ;
\* st = [cache, best_score, best_nail, scores, raised]; an exception ends the scan
\* (each intermediate st is bound as a value before the next candidate)
RECURSIVE ScanCandidates(_, _, _, _, _, _, _)
ScanCandidates(target_nail, st, target, canvas, nl, cur, recent) ==
    IF target_nail >= num_nails \/ st.raised THEN st
    ELSE CHOOSE out \in
            { ScanCandidates(target_nail + 1, next, target, canvas, nl, cur, recent)
              : next \in { ConsiderCandidate(st, target_nail, target, canvas,
                                             nl, cur, recent) } } : TRUE

Scan ==
    ScanCandidates(0, [cache |-> line_cache, best_score |-> NegInf,
                       best_nail |-> None, scores |-> << >>, raised |-> FALSE],
                   target_image, current_canvas, nails, current_nail, recent_connections)

\* if best_nail is not None and best_score > min_score_threshold
GoodConnection(st) ==
    st.best_nail # None /\ ScoreGT(st.best_score, MinScoreThreshold)

(* ------------------------------------------------------------------ *)
(* generate_string_art_greedy: the commit                             *)
(* ------------------------------------------------------------------ *)

\* a commit that records the chord in both directions
AppendPathBothWays(p, start_nail, end_nail) ==
    Append(Append(p, [startIndex |-> start_nail, endIndex |-> end_nail]),
           [startIndex |-> end_nail, endIndex |-> start_nail])

AppendPath(p, start_nail, end_nail) ==
    Append(p, [startIndex |-> start_nail, endIndex |-> end_nail])

\* a canvas of 8-bit pixels: the sum wraps instead of being clamped
DarkenWrapping(value) == (value + LineOpacity) % (MaxDarkness + 1)

\* a commit without the clamp
DarkenUnclamped(value) == value + LineOpacity

\* current_canvas[y, x] = min(255, current_canvas[y, x] + self.line_opacity)
Darken(value) == Min(MaxDarkness, value + LineOpacity)

\* a drawing loop that stops one point short of the line's end
RECURSIVE DrawLineOpen(_, _, _)
DrawLineOpen(canvas, line_points, k) ==
    IF k >= Len(line_points) THEN canvas
    ELSE LET x == line_points[k][1]
             y == line_points[k][2]
         IN  IF InCanvas(x, y)
             THEN DrawLineOpen([canvas EXCEPT ![At(y, x)] = Darken(@)],
                               line_points, k + 1)
             ELSE DrawLineOpen(canvas, line_points, k + 1)

\* the canvas after drawing line_points, one assignment per point in order
RECURSIVE DrawLine(_, _, _)
DrawLine(canvas, line_points, k) ==
    IF k > Len(line_points) THEN canvas
    ELSE LET x == line_points[k][1]
             y == line_points[k][2]
         IN  IF InCanvas(x, y)
             THEN DrawLine([canvas EXCEPT ![At(y, x)] = Darken(@)],
                           line_points, k + 1)
             ELSE DrawLine(canvas, line_points, k + 1)

\* a commit that never evicts
RecentAfterAddNoEviction(recent, key) == { recent \cup {key} }

\* recent_connections.add(key); if len > recent_limit: recent_connections.pop()
\* set.pop() removes an arbitrary member: every outcome is possible
RecentAfterAdd(recent, key) ==
    LET added == recent \cup {key}
    IN  IF Cardinality(added) > RecentLimit
        THEN { added \ {victim} : victim \in added }
        ELSE { added }

(* ------------------------------------------------------------------ *)
(* Inputs: the darkness targets explored                              *)
(* ------------------------------------------------------------------ *)

\* the pixels of the chord between two nails, in either drawing direction
ChordPixels(nl, a, b) ==
    PointSet(bresenham_line(nl[a].x, nl[a].y, nl[b].x, nl[b].y))
        \cup PointSet(bresenham_line(nl[b].x, nl[b].y, nl[a].x, nl[a].y))

\* an all-zero target
ZeroTarget == TargetArray(CanvasSize, CanvasSize, [p \in Pixels |-> 0])

\* a target with three dark chords on a white field: 0-3 needs one pass of
\* thread, 3-6 and the short chord 6-7 are as dark as a pixel can be
ChordTarget ==
    LET nl == NailLayout(NumNails)
        light == ChordPixels(nl, 0, 3)
        dark  == ChordPixels(nl, 3, 6) \cup ChordPixels(nl, 6, 7)
    IN  TargetArray(CanvasSize, CanvasSize,
            [p \in Pixels |->
                IF <<PixelX(p), PixelY(p)>> \in dark THEN MaxDarkness
                ELSE IF <<PixelX(p), PixelY(p)>> \in light THEN LineOpacity
                ELSE 0])

\* a target with two chords from nail 0 that each need one pass of thread:
\* from nail 0 the two score the same
TieTarget ==
    LET nl == NailLayout(NumNails)
        light == ChordPixels(nl, 0, 3) \cup ChordPixels(nl, 0, 5)
    IN  TargetArray(CanvasSize, CanvasSize,
            [p \in Pixels |->
                IF <<PixelX(p), PixelY(p)>> \in light THEN LineOpacity ELSE 0])

Targets == { ZeroTarget, ChordTarget, TieTarget }

(* ------------------------------------------------------------------ *)
(* The endpoint's requests and the objects they create                *)
(* ------------------------------------------------------------------ *)

\* requests handled at the same time, and the loop iterations followed for each
MaxRequests == 2
MaxRequestIterations == 2

Requests == 1 .. MaxRequests

\* object identities: NoRef is an unbound name; ModuleLevel stands for the
\* objects of the module's namespace (app, logger, the random module), which
\* every request uses; objects created later get heap_next, heap_next + 1, ...
NoRef == 0
ModuleLevel == 1

\* the names of a request's handler, of its generator and of the synthesis call
NoRefs == [generator |-> NoRef, nails |-> NoRef, paths |-> NoRef,
           line_cache |-> NoRef, target |-> NoRef, canvas |-> NoRef,
           recent |-> NoRef]

\* the objects a request's names are bound to
ObjectsOf(r) ==
    { req_refs[r].generator, req_refs[r].nails, req_refs[r].paths,
      req_refs[r].line_cache, req_refs[r].target, req_refs[r].canvas,
      req_refs[r].recent } \ { NoRef }

\* a line cache kept in a class attribute: one dict for all instances
ClassLevelCache(fresh) == ModuleLevel

\* self.line_cache = {} in __init__: a new dict for each instance
NewLineCache(fresh) == fresh

(* ------------------------------------------------------------------ *)
(* Auto-Screen-Lock: AutoScreenLockApp and its monitoring threads     *)
(* ------------------------------------------------------------------ *)

\* timeout_seconds in clock ticks, the ticks the clock is followed for, and the
\* monitoring threads that start_monitoring may create
TimeoutTicks == 2
MaxTime == 4
MaxThreads == 2

Threads == 1 .. MaxThreads

\* AutoScreenLockApp.__init__: not monitoring, no thread, the timer at now
AppConstructed ==
    /\ is_monitoring = FALSE
    /\ last_face_time = 0
    /\ cap_open = FALSE
    /\ now = 0
    /\ thread_pc = [t \in Threads |-> "unstarted"]
    /\ face_detected = [t \in Threads |-> FALSE]
    /\ time_since_face = [t \in Threads |-> 0]
    /\ lock_calls = 0
    /\ last_detection = None

(* ------------------------------------------------------------------ *)
(* Init: the generator as __init__ leaves it                          *)
(* ------------------------------------------------------------------ *)

\* the generator after ImprovedStringArtGenerator(num_nails = n, ...)
Constructed(n) ==
    /\ num_nails = n
    /\ pc = "constructed"
    /\ nails = << >>
    /\ paths = << >>
    /\ line_cache = << >>
    /\ target_image = << >>
    /\ current_canvas = << >>
    /\ current_nail = None
    /\ recent_connections = {}
    /\ low_score_count = 0
    /\ iteration = 0
    /\ call_args = << >>
    /\ call_ret = << >>
    /\ calls = 0
    /\ commits = 0
    /\ since_commit = 0
    /\ since_restart = {}
    /\ restart_marks = {}
    /\ scan_scores = << >>
    /\ count_peak = 0
    /\ elapsed = 0
    /\ req_pc = [r \in Requests |-> "idle"]
    /\ req_refs = [r \in Requests |-> NoRefs]
    /\ req_done = [r \in Requests |-> 0]
    /\ heap_next = ModuleLevel + 1
    /\ writers = {}
    /\ AppConstructed
    /\ line_pc = "idle"
    /\ line_args = << >>
    /\ line_s = << >>
    /\ line_passes = 0
    /\ score_args = << >>
    /\ score_ret = << >>

\* the generator as the endpoint constructs it
Init == Constructed(NumNails)

(* ------------------------------------------------------------------ *)
(* generate_string_art_greedy                                         *)
(* ------------------------------------------------------------------ *)

\* entry of generate_string_art_greedy(target_image) up to the loop, for a
\* target_image among targets
StartWith(targets) ==
    /\ pc = "constructed"
    /\ \E t \in targets : target_image' = t
    /\ nails' = generate_nails
    /\ current_canvas' = [p \in Pixels |-> 0]
    /\ paths' = << >>
    /\ \E n \in NailIds : current_nail' = n
    /\ recent_connections' = {}
    /\ low_score_count' = 0
    /\ iteration' = 0
    /\ pc' = "loop"
    /\ UNCHANGED << line_cache, call_vars, hist_vars, frame_vars >>

\* the call as the endpoint makes it: on the array preprocess_image returned,
\* which it resized to canvas_size x canvas_size
StartGreedy == StartWith(Targets)

\* the pc after the else branch: break when low_score_count > 100
AfterLowScore(count) == IF count > TerminateBound THEN "stopped" ELSE "loop"

\* the commit: if best_nail is not None and best_score > min_score_threshold
CommitLine(st) ==
    /\ \E got \in { get_line_points(st.cache, nails, current_nail, st.best_nail) } :
         /\ line_cache' = got.cache
         /\ current_canvas' = DrawLine(current_canvas, got.points, 1)
    /\ paths' = AppendPath(paths, current_nail, st.best_nail)
    /\ recent_connections' \in
           RecentAfterAdd(recent_connections,
                          ConnectionKey(current_nail, st.best_nail))
    /\ current_nail' = st.best_nail
    /\ low_score_count' = 0
    /\ commits' = commits + 1
    /\ since_commit' = 0
    /\ since_restart' =
           since_restart \cup { ConnectionKey(current_nail, st.best_nail) }
    /\ count_peak' = low_score_count
    /\ UNCHANGED << pc, restart_marks >>

\* an else branch that also forgets the recent connections
LowScoreIterationForget(st) ==
    /\ line_cache' = st.cache
    /\ low_score_count' = low_score_count + 1
    /\ pc' = AfterLowScore(low_score_count + 1)
    /\ since_commit' = since_commit + 1
    /\ count_peak' = low_score_count + 1
    /\ recent_connections' = {}
    /\ UNCHANGED << paths, current_canvas, current_nail,
                    commits, since_restart, restart_marks >>

\* the else branch with low_score_count <= 50 after the increment
LowScoreIteration(st) ==
    /\ line_cache' = st.cache
    /\ low_score_count' = low_score_count + 1
    /\ pc' = AfterLowScore(low_score_count + 1)
    /\ since_commit' = since_commit + 1
    /\ count_peak' = low_score_count + 1
    /\ UNCHANGED << paths, current_canvas, current_nail, recent_connections,
                    commits, since_restart, restart_marks >>

\* a jump that forgets recent_connections.clear()
RandomJumpKeepRecent(st) ==
    /\ line_cache' = st.cache
    /\ \E n \in NailIds : current_nail' = n
    /\ low_score_count' = 0
    /\ pc' = AfterLowScore(0)
    /\ since_commit' = since_commit + 1
    /\ since_restart' = {}
    /\ restart_marks' = restart_marks \cup {Len(paths)}
    /\ count_peak' = low_score_count + 1
    /\ UNCHANGED << paths, current_canvas, commits, recent_connections >>

\* a jump that forgets low_score_count = 0
RandomJumpKeepCount(st) ==
    /\ line_cache' = st.cache
    /\ \E n \in NailIds : current_nail' = n
    /\ low_score_count' = low_score_count + 1
    /\ recent_connections' = {}
    /\ pc' = AfterLowScore(low_score_count + 1)
    /\ since_commit' = since_commit + 1
    /\ since_restart' = {}
    /\ restart_marks' = restart_marks \cup {Len(paths)}
    /\ count_peak' = low_score_count + 1
    /\ UNCHANGED << paths, current_canvas, commits >>

\* the else branch with low_score_count > 50 after the increment: a jump to a
\* random nail, which resets the count and clears recent_connections
RandomJump(st) ==
    /\ line_cache' = st.cache
    /\ \E n \in NailIds : current_nail' = n
    /\ low_score_count' = 0
    /\ recent_connections' = {}
    /\ pc' = AfterLowScore(0)
    /\ since_commit' = since_commit + 1
    /\ since_restart' = {}
    /\ restart_marks' = restart_marks \cup {Len(paths)}
    /\ count_peak' = low_score_count + 1
    /\ UNCHANGED << paths, current_canvas, commits >>

\* a target read of the scan raised IndexError: the call ends there, with the
\* lines rasterised so far left in the cache
RaiseIndexError(st) ==
    /\ line_cache' = st.cache
    /\ pc' = "raised"
    /\ UNCHANGED << paths, current_canvas, current_nail, recent_connections,
                    low_score_count, iteration, hist_vars >>

\* a loop over range(self.max_lines + 1): one iteration too many
GreedyIterationOneMore ==
    /\ pc = "loop"
    /\ iteration <= MaxLines
    /\ \E st \in { Scan } :
         IF st.raised
         THEN RaiseIndexError(st)
         ELSE /\ IF GoodConnection(st)
                 THEN CommitLine(st)
                 ELSE IF low_score_count + 1 > StuckBound
                      THEN RandomJump(st)
                      ELSE LowScoreIteration(st)
              /\ iteration' = iteration + 1
              /\ scan_scores' = st.scores
    /\ UNCHANGED << nails, target_image, call_vars, frame_vars >>

\* one iteration of "for iteration in range(self.max_lines)"
GreedyIteration ==
    /\ pc = "loop"
    /\ iteration < MaxLines
    /\ \E st \in { Scan } :
         IF st.raised
         THEN RaiseIndexError(st)
         ELSE /\ IF GoodConnection(st)
                 THEN CommitLine(st)
                 ELSE IF low_score_count + 1 > StuckBound
                      THEN RandomJump(st)
                      ELSE LowScoreIteration(st)
              /\ iteration' = iteration + 1
              /\ scan_scores' = st.scores
    /\ UNCHANGED << nails, target_image, call_vars, frame_vars >>

\* the loop is over: range(self.max_lines) is exhausted, or the loop broke
LoopOver == IF pc = "stopped" THEN TRUE ELSE pc = "loop" /\ iteration >= MaxLines

\* the return of generate_string_art_greedy
ReturnResult ==
    /\ LoopOver
    /\ pc' = "returned"
    /\ UNCHANGED << nails, line_cache, synth_vars, call_vars, hist_vars, frame_vars >>

Next == StartGreedy \/ GreedyIteration \/ ReturnResult

Spec == Init /\ [][Next]_vars

\* the call runs on: a call that has started is not suspended for ever
SpecFair == Spec /\ WF_vars(Next)

(* ------------------------------------------------------------------ *)
(* Direct use of the line cache: generate_nails, then get_line_points *)
(* ------------------------------------------------------------------ *)

GenerateNailsCall ==
    /\ pc = "constructed"
    /\ nails' = generate_nails
    /\ pc' = "nails"
    /\ UNCHANGED << line_cache, synth_vars, call_vars, hist_vars, frame_vars >>

GetLinePointsCall ==
    /\ pc = "nails"
    /\ calls < MaxCalls
    /\ \E a, b \in NailIds :
         /\ a # b
         /\ LET got == get_line_points(line_cache, nails, a, b)
            IN  /\ line_cache' = got.cache
                /\ call_ret' = got.points
         /\ call_args' = << a, b >>
    /\ calls' = calls + 1
    /\ UNCHANGED << pc, nails, synth_vars, hist_vars, frame_vars >>

NextCache == GenerateNailsCall \/ GetLinePointsCall

SpecCache == Init /\ [][NextCache]_vars

(* ------------------------------------------------------------------ *)
(* Direct use of bresenham_line: one call, followed pass by pass      *)
(* ------------------------------------------------------------------ *)

\* the endpoint coordinates explored: a window at the canvas's low corner,
\* LineMargin outside it and LineSpan inside, and the two sides of its far edge
LineMargin == 1
LineSpan == 5
LineCoords == ((0 - LineMargin) .. LineSpan) \cup { CanvasSize - 1, CanvasSize }

\* the passes a call is followed for: more than any line between the explored
\* endpoints needs
MaxPasses == 2 * (CanvasSize + LineMargin)

\* bresenham_line(x1, y1, x2, y2) up to the loop
BresenhamCall ==
    /\ line_pc = "idle"
    /\ \E x1, y1, x2, y2 \in LineCoords :
         /\ line_args' = << x1, y1, x2, y2 >>
         /\ line_s' = [x |-> x1, y |-> y1,
                       err |-> Abs(x2 - x1) - Abs(y2 - y1), points |-> << >>]
    /\ line_passes' = 0
    /\ line_pc' = "while"
    /\ UNCHANGED << pc, nails, line_cache, synth_vars, call_vars, hist_vars,
                    config_vars, clock_vars, request_vars, lock_vars, score_vars >>

\* one pass of "while True": the point is appended if it is on the canvas; at
\* (x2, y2) the loop breaks and points is returned, else x, y and err advance
BresenhamPass ==
    /\ line_pc = "while"
    /\ LET x1 == line_args[1]
           y1 == line_args[2]
           x2 == line_args[3]
           y2 == line_args[4]
           visited == [line_s EXCEPT
                          !.points = LineVisit(line_s.points, line_s.x, line_s.y)]
       IN  IF line_s.x = x2 /\ line_s.y = y2
           THEN /\ line_s' = visited
                /\ line_pc' = "returned"
                /\ UNCHANGED line_passes
           ELSE /\ line_passes < MaxPasses
                /\ line_s' = LineAdvance(visited, Abs(x2 - x1), Abs(y2 - y1),
                                         IF x1 < x2 THEN 1 ELSE -1,
                                         IF y1 < y2 THEN 1 ELSE -1)
                /\ line_passes' = line_passes + 1
                /\ UNCHANGED line_pc
    /\ UNCHANGED << line_args, pc, nails, line_cache, synth_vars, call_vars,
                    hist_vars, config_vars, clock_vars, request_vars, lock_vars,
                    score_vars >>

NextLine == BresenhamCall \/ BresenhamPass

SpecLine == Init /\ [][NextLine]_vars

\* the call runs on: the thread in the loop is not suspended for ever
SpecLineFair == SpecLine /\ WF_vars(BresenhamPass)

(* ------------------------------------------------------------------ *)
(* Direct use of calculate_line_score: any nails, target and canvas   *)
(* ------------------------------------------------------------------ *)

\* the nail coordinates explored: outside the canvas on either side, its two
\* edges and its middle
ScoreCoords == { 0 - LineMargin, 0, CanvasSize \div 2, CanvasSize - 1, CanvasSize }

\* self.nails with two nails, placed anywhere
ScoreLayouts ==
    { [i \in 0 .. 1 |-> IF i = 0 THEN [x |-> x1, y |-> y1] ELSE [x |-> x2, y |-> y2]]
      : x1 \in ScoreCoords, y1 \in ScoreCoords,
        x2 \in ScoreCoords, y2 \in ScoreCoords }

\* the canvases explored: untouched, saturated, equal to the chord target, and
\* half way to it
ScoreCanvases ==
    { [p \in Pixels |-> 0],
      [p \in Pixels |-> MaxDarkness],
      ChordTarget.data,
      [p \in Pixels |-> ChordTarget.data[p] \div 2] }

\* a generator whose nails the caller has placed, with a target and a canvas
ScoreSetup ==
    /\ pc = "constructed"
    /\ nails' \in ScoreLayouts
    /\ target_image' \in Targets
    /\ current_canvas' \in ScoreCanvases
    /\ pc' = "scoring"
    /\ UNCHANGED << line_cache, paths, current_nail, recent_connections,
                    low_score_count, iteration, call_vars, hist_vars, frame_vars >>

\* calculate_line_score(target_image, current_canvas, start_nail, end_nail)
ScoreCall ==
    /\ pc = "scoring"
    /\ calls < MaxCalls
    /\ \E a, b \in DOMAIN nails :
         /\ a # b
         /\ \E r \in { calculate_line_score(target_image, current_canvas,
                                             line_cache, nails, a, b) } :
              /\ ~ r.raised
              /\ line_cache' = r.cache
              /\ score_ret' = r.score
         /\ score_args' = << a, b >>
    /\ calls' = calls + 1
    /\ UNCHANGED << pc, nails, synth_vars, call_args, call_ret, hist_vars,
                    config_vars, clock_vars, request_vars, lock_vars, raster_vars >>

NextScore == ScoreSetup \/ ScoreCall

SpecScore == Init /\ [][NextScore]_vars

(* ------------------------------------------------------------------ *)
(* The synthesis under a wall clock                                   *)
(* ------------------------------------------------------------------ *)

\* a time budget for one synthesis, and the ticks the clock is followed for
TimeBudget == 1
MaxElapsed == 2

\* the wall clock advances while the loop runs; the loop reads it only to log
\* the elapsed time (every 200th iteration) and the total time
Tick ==
    /\ pc = "loop"
    /\ elapsed < MaxElapsed
    /\ elapsed' = elapsed + 1
    /\ UNCHANGED << pc, nails, line_cache, synth_vars, call_vars, hist_vars,
                    config_vars, request_vars, lock_vars, raster_vars, score_vars >>

NextTimed == Next \/ Tick

SpecTimed == Init /\ [][NextTimed]_vars

(* ------------------------------------------------------------------ *)
(* generate_string_art: the endpoint, one handler per request         *)
(* ------------------------------------------------------------------ *)

\* everything of the single generator followed by Spec
art_vars == << pc, nails, line_cache, synth_vars, call_vars, hist_vars,
               config_vars, clock_vars, raster_vars, score_vars >>

\* request r arrives and its handler starts
Receive(r) ==
    /\ req_pc[r] = "idle"
    /\ req_pc' = [req_pc EXCEPT ![r] = "received"]
    /\ UNCHANGED << req_refs, req_done, heap_next, writers, art_vars, lock_vars >>

\* no base64Image, or image data that does not decode: answered with 400
Reject(r) ==
    /\ req_pc[r] = "received"
    /\ req_pc' = [req_pc EXCEPT ![r] = "rejected"]
    /\ UNCHANGED << req_refs, req_done, heap_next, writers, art_vars, lock_vars >>

\* generator = ImprovedStringArtGenerator(...): a new instance whose __init__
\* binds new nails, paths and line_cache containers
ConstructGenerator(r) ==
    /\ req_pc[r] = "received"
    /\ req_pc' = [req_pc EXCEPT ![r] = "constructed"]
    /\ req_refs' = [req_refs EXCEPT ![r] =
                       [@ EXCEPT !.generator = heap_next,
                                 !.nails = heap_next + 1,
                                 !.paths = heap_next + 2,
                                 !.line_cache = NewLineCache(heap_next + 3)]]
    /\ heap_next' = heap_next + 4
    /\ writers' = writers \cup { << r, heap_next >> }
    /\ UNCHANGED << req_done, art_vars, lock_vars >>

\* processed_image = generator.preprocess_image(image): a new array
Preprocess(r) ==
    /\ req_pc[r] = "constructed"
    /\ req_pc' = [req_pc EXCEPT ![r] = "preprocessed"]
    /\ req_refs' = [req_refs EXCEPT ![r].target = heap_next]
    /\ heap_next' = heap_next + 1
    /\ writers' = writers \cup { << r, heap_next >> }
    /\ UNCHANGED << req_done, art_vars, lock_vars >>

\* generate_string_art_greedy up to the loop: new nails and paths lists, a new
\* canvas and a new recent set; the nails are appended, random.randint is called
StartSynthesis(r) ==
    /\ req_pc[r] = "preprocessed"
    /\ req_pc' = [req_pc EXCEPT ![r] = "loop"]
    /\ req_refs' = [req_refs EXCEPT ![r] =
                       [@ EXCEPT !.nails = heap_next,
                                 !.canvas = heap_next + 1,
                                 !.paths = heap_next + 2,
                                 !.recent = heap_next + 3]]
    /\ heap_next' = heap_next + 4
    /\ writers' = writers \cup { << r, req_refs[r].generator >>,
                                  << r, heap_next >>, << r, ModuleLevel >> }
    /\ UNCHANGED << req_done, art_vars, lock_vars >>

\* one loop iteration of request r's synthesis: the scan fills the line cache;
\* a commit writes the paths list, the canvas and the recent set; a jump calls
\* random.randint and clears the recent set; the logger is used
Iterate(r) ==
    /\ req_pc[r] = "loop"
    /\ req_done[r] < MaxRequestIterations
    /\ req_done' = [req_done EXCEPT ![r] = @ + 1]
    /\ writers' = writers \cup
           { << r, o >> : o \in { req_refs[r].line_cache, req_refs[r].paths,
                                   req_refs[r].canvas, req_refs[r].recent,
                                   ModuleLevel } }
    /\ UNCHANGED << req_pc, req_refs, heap_next, art_vars, lock_vars >>

\* return jsonify(result)
Respond(r) ==
    /\ req_pc[r] = "loop"
    /\ req_done[r] = MaxRequestIterations
    /\ req_pc' = [req_pc EXCEPT ![r] = "responded"]
    /\ UNCHANGED << req_refs, req_done, heap_next, writers, art_vars, lock_vars >>

NextRequests ==
    \E r \in Requests :
        \/ Receive(r)
        \/ Reject(r)
        \/ ConstructGenerator(r)
        \/ Preprocess(r)
        \/ StartSynthesis(r)
        \/ Iterate(r)
        \/ Respond(r)

SpecRequests == Init /\ [][NextRequests]_vars

(* ------------------------------------------------------------------ *)
(* Auto-Screen-Lock: start_monitoring, stop_monitoring, monitoring_loop *)
(* ------------------------------------------------------------------ *)

\* everything outside the screen lock application
not_lock_vars == << art_vars, request_vars >>

\* the clock advances
ClockTick ==
    /\ now < MaxTime
    /\ now' = now + 1
    /\ UNCHANGED << is_monitoring, last_face_time, cap_open, thread_pc,
                    face_detected, time_since_face, lock_calls, last_detection,
                    not_lock_vars >>

\* toggle_monitoring while stopped: start_monitoring opens the camera (when
\* it cannot, nothing changes), sets the flag and the timer and starts a new
\* monitoring_loop thread; the previous thread is not joined
StartMonitoring(t) ==
    /\ ~ is_monitoring
    /\ thread_pc[t] = "unstarted"
    /\ \A u \in Threads : u < t => thread_pc[u] # "unstarted"
    /\ cap_open' = TRUE
    /\ is_monitoring' = TRUE
    /\ last_face_time' = now
    /\ thread_pc' = [thread_pc EXCEPT ![t] = "while"]
    /\ UNCHANGED << now, face_detected, time_since_face, lock_calls,
                    last_detection, not_lock_vars >>

\* toggle_monitoring while monitoring: stop_monitoring clears the flag and
\* releases the camera
StopMonitoring ==
    /\ is_monitoring
    /\ is_monitoring' = FALSE
    /\ cap_open' = FALSE
    /\ UNCHANGED << last_face_time, now, thread_pc, face_detected,
                    time_since_face, lock_calls, last_detection, not_lock_vars >>

\* while self.is_monitoring:
LoopTest(t) ==
    /\ thread_pc[t] = "while"
    /\ thread_pc' = [thread_pc EXCEPT ![t] =
                         IF is_monitoring THEN "detect" ELSE "exited"]
    /\ UNCHANGED << is_monitoring, last_face_time, cap_open, now, face_detected,
                    time_since_face, lock_calls, last_detection, not_lock_vars >>

\* face_detected = self.face_detector.detect_face(): False without an open
\* camera, else whatever the cascade finds in the frame
DetectFace(t) ==
    /\ thread_pc[t] = "detect"
    /\ \E found \in (IF cap_open THEN BOOLEAN ELSE { FALSE }) :
         face_detected' = [face_detected EXCEPT ![t] = found]
    /\ thread_pc' = [thread_pc EXCEPT ![t] = "record"]
    /\ UNCHANGED << is_monitoring, last_face_time, cap_open, now,
                    time_since_face, lock_calls, last_detection, not_lock_vars >>

\* if face_detected: self.last_face_time = time.time()
RecordFace(t) ==
    /\ thread_pc[t] = "record"
    /\ last_face_time' = IF face_detected[t] THEN now ELSE last_face_time
    /\ last_detection' = IF face_detected[t] THEN now ELSE last_detection
    /\ thread_pc' = [thread_pc EXCEPT ![t] = "measure"]
    /\ UNCHANGED << is_monitoring, cap_open, now, face_detected,
                    time_since_face, lock_calls, not_lock_vars >>

\* time_since_face = time.time() - self.last_face_time
MeasureTime(t) ==
    /\ thread_pc[t] = "measure"
    /\ time_since_face' = [time_since_face EXCEPT ![t] = now - last_face_time]
    /\ thread_pc' = [thread_pc EXCEPT ![t] = "compare"]
    /\ UNCHANGED << is_monitoring, last_face_time, cap_open, now, face_detected,
                    lock_calls, last_detection, not_lock_vars >>

\* if time_since_face >= self.timeout_seconds: ... (else: at most a warning)
CompareTimeout(t) ==
    /\ thread_pc[t] = "compare"
    /\ thread_pc' = [thread_pc EXCEPT ![t] =
                         IF time_since_face[t] >= TimeoutTicks
                         THEN "lock" ELSE "sleep"]
    /\ UNCHANGED << is_monitoring, last_face_time, cap_open, now, face_detected,
                    time_since_face, lock_calls, last_detection, not_lock_vars >>

\* self.screen_locker.lock_screen()
LockScreen(t) ==
    /\ thread_pc[t] = "lock"
    /\ lock_calls' = lock_calls + 1
    /\ thread_pc' = [thread_pc EXCEPT ![t] = "reset"]
    /\ UNCHANGED << is_monitoring, last_face_time, cap_open, now, face_detected,
                    time_since_face, last_detection, not_lock_vars >>

\* Reset timer after locking: self.last_face_time = time.time()
ResetTimer(t) ==
    /\ thread_pc[t] = "reset"
    /\ last_face_time' = now
    /\ thread_pc' = [thread_pc EXCEPT ![t] = "sleep"]
    /\ UNCHANGED << is_monitoring, cap_open, now, face_detected,
                    time_since_face, lock_calls, last_detection, not_lock_vars >>

\* time.sleep(0.5), then back to the loop test
Sleep(t) ==
    /\ thread_pc[t] = "sleep"
    /\ thread_pc' = [thread_pc EXCEPT ![t] = "while"]
    /\ UNCHANGED << is_monitoring, last_face_time, cap_open, now, face_detected,
                    time_since_face, lock_calls, last_detection, not_lock_vars >>

\* one step of monitoring thread t
ThreadStep(t) ==
    \/ LoopTest(t)
    \/ DetectFace(t)
    \/ RecordFace(t)
    \/ MeasureTime(t)
    \/ CompareTimeout(t)
    \/ LockScreen(t)
    \/ ResetTimer(t)
    \/ Sleep(t)

NextLock ==
    \/ ClockTick
    \/ StopMonitoring
    \/ \E t \in Threads : StartMonitoring(t) \/ ThreadStep(t)

SpecLock == Init /\ [][NextLock]_vars

\* every started monitoring thread keeps being scheduled
SpecLockFair == SpecLock /\ \A t \in Threads : WF_vars(ThreadStep(t))

(* ------------------------------------------------------------------ *)
(* Direct use of the class: any constructor arguments                 *)
(* ------------------------------------------------------------------ *)

\* the num_nails arguments explored: a single nail, and the usual layout
NumNailsArgs == { 1, NumNails }

InitDirect == \E n \in NumNailsArgs : Constructed(n)

\* arrays whose shape is not the canvas's: half its side, and no area at all
HalfTarget ==
    LET side == CanvasSize \div 2
    IN  TargetArray(side, side, [p \in 0 .. (side * side - 1) |-> MaxDarkness])

EmptyTarget == TargetArray(0, 0, << >>)

DirectTargets == Targets \cup { HalfTarget, EmptyTarget }

\* generate_string_art_greedy called on any array
StartGreedyDirect == StartWith(DirectTargets)

NextDirect == StartGreedyDirect \/ GreedyIteration \/ ReturnResult

SpecDirect == InitDirect /\ [][NextDirect]_vars

(* ------------------------------------------------------------------ *)
(* Properties                                                         *)
(* ------------------------------------------------------------------ *)

PathKey(entry) == ConnectionKey(entry.startIndex, entry.endIndex)

\* C1: every entry {startIndex: s, endIndex: e} of the path satisfies
\* min(|s - e|, N - |s - e|) >= min_distance, in every reachable state.
C1_DistanceInvariant ==
    \A i \in 1 .. Len(paths) :
        Min(Abs(paths[i].startIndex - paths[i].endIndex),
            NumNails - Abs(paths[i].startIndex - paths[i].endIndex)) >= MinDistance

\* two lines have been committed
C1_Witness == Len(paths) >= 2

\* C2: the path is one continuous thread: every entry starts at the nail where
\* the entry before it ended, whatever commits, failed iterations and random
\* jumps happened in between.
C2_ContinuousPath ==
    \A i \in 1 .. (Len(paths) - 1) : paths[i + 1].startIndex = paths[i].endIndex

\* C3: once more than TerminateBound (100) consecutive iterations since the
\* last commit have found no good connection, the loop has stopped: no further
\* iteration can run.
C3_StopsAtTerminateBound ==
    since_commit > TerminateBound => (pc # "loop" \/ iteration >= MaxLines)

\* C4: len(paths) <= max_lines in every reachable state, and len(paths) is the
\* number of committing iterations so far, not the number of iterations run.
C4_PathLengthBound ==
    /\ Len(paths) <= MaxLines
    /\ Len(paths) = commits

\* some iterations committed and some did not
C4_Witness == commits >= 2 /\ iteration > commits

\* C5: rasterisation is symmetric under endpoint swap: for the nails a, b of a
\* get_line_points call, the set of points rasterised from a to b equals the
\* set rasterised from b to a.
C5_RasterSymmetric ==
    call_args # << >> =>
        LET a == nails[call_args[1]]
            b == nails[call_args[2]]
        IN  PointSet(bresenham_line(a.x, a.y, b.x, b.y))
                = PointSet(bresenham_line(b.x, b.y, a.x, a.y))

\* C6: an entry once stored in line_cache is never changed or removed, and a
\* get_line_points call, in either order of its arguments, returns the sequence
\* stored under the key (min(a, b), max(a, b)).
C6_CacheConsistency ==
    /\ [][\A k \in DOMAIN line_cache :
              k \in DOMAIN line_cache' /\ line_cache'[k] = line_cache[k]]_vars
    /\ [](call_args # << >> =>
              /\ ConnectionKey(call_args[1], call_args[2]) \in DOMAIN line_cache
              /\ call_ret = line_cache[ConnectionKey(call_args[1], call_args[2])])

\* a call (b, a) with b > a was served the line stored by the earlier call
\* (a, b), which is not the line rasterised from b to a
C6_Witness ==
    /\ calls = 2
    /\ call_args[1] > call_args[2]
    /\ call_ret # bresenham_line(nails[call_args[1]].x, nails[call_args[1]].y,
                                 nails[call_args[2]].x, nails[call_args[2]].y)

\* C7: no step of the synthesis loop (commit, failed iteration, random jump)
\* decreases the value of any canvas pixel.
C7_CanvasMonotonic ==
    [][pc = "loop" =>
          \A p \in Pixels : current_canvas'[p] >= current_canvas[p]]_vars

\* lines were committed, a random jump happened, and the canvas is darkened
C7_Witness ==
    /\ commits >= 2
    /\ restart_marks # {}
    /\ \E p \in Pixels : current_canvas[p] > LineOpacity

\* C8: in every reachable state every canvas pixel value lies in [0, 255].
C8_CanvasInRange ==
    \A p \in DOMAIN current_canvas :
        0 <= current_canvas[p] /\ current_canvas[p] <= MaxDarkness

\* a pixel whose sum passed 255 is held at the clamp
C8_Witness ==
    /\ commits >= 3
    /\ \E p \in Pixels : current_canvas[p] = MaxDarkness

\* C9: when two commits happen with no random jump between them, the
\* normalised pair of the later commit differs from the pair of the commit
\* just before it, whichever member the eviction removed.
C9_PreviousPairForbidden ==
    \A i \in 1 .. (Len(paths) - 1) :
        i \notin restart_marks => PathKey(paths[i + 1]) # PathKey(paths[i])

\* C10: at the end of every iteration recent_connections holds at most
\* recent_limit pairs, each added by a commit since the last random jump.
C10_RecentBounded ==
    /\ Cardinality(recent_connections) <= RecentLimit
    /\ recent_connections \subseteq since_restart

\* the set is full and a pair committed since the last jump has been evicted
C10_Witness ==
    /\ Cardinality(recent_connections) = RecentLimit
    /\ Cardinality(since_restart) > RecentLimit

\* C11: an iteration that does not commit and takes low_score_count past the
\* stuck bound (50) leaves current_nail at one of the N nails, empties
\* recent_connections, resets low_score_count to 0, appends nothing to the path
\* and leaves the canvas unchanged.
C11_RestartEffects ==
    [][(/\ pc = "loop"
        /\ low_score_count = StuckBound
        /\ iteration' = iteration + 1
        /\ since_commit' = since_commit + 1)
       => (/\ current_nail' \in NailIds
           /\ recent_connections' = {}
           /\ low_score_count' = 0
           /\ paths' = paths
           /\ current_canvas' = current_canvas)]_vars

\* a jump has just happened after a commit had filled recent_connections
C11_Witness ==
    /\ commits >= 1
    /\ since_commit = StuckBound + 1
    /\ low_score_count = 0
    /\ recent_connections = {}

\* C12: for an all-zero target no candidate's score exceeds
\* min_score_threshold, so no commit happens and the path stays empty up to and
\* including the returned result.
C12_ZeroTargetEmptyPath ==
    (pc # "constructed" /\ target_image = ZeroTarget) =>
        (paths = << >> /\ commits = 0)

\* a run on the all-zero target has used all its iterations and returned
C12_Witness ==
    /\ pc = "returned"
    /\ target_image = ZeroTarget
    /\ iteration = MaxLines

\* C13: for an all-zero target the loop fails the score threshold on iteration 1
\* and terminates at once: after that first iteration no further iteration
\* can run.
C13_ZeroTargetStopsAtOnce ==
    (target_image = ZeroTarget /\ iteration >= 1) => pc # "loop"

\* C14: invalid parameters (num_nails <= 1, canvas_size <= 0,
\* min_distance >= num_nails / 2) are rejected before the first iteration: a
\* generator built with them never enters the loop and never produces nails, a
\* path or a canvas.
C14_InvalidRejected ==
    (num_nails <= 1 \/ CanvasSize <= 0 \/ 2 * MinDistance >= num_nails) =>
        /\ pc \notin { "loop", "stopped", "returned" }
        /\ nails = << >>
        /\ paths = << >>
        /\ current_canvas = << >>

\* C16: the wall clock is checked once per iteration: once the elapsed time
\* exceeds the time budget the loop exits, so no further iteration runs (and
\* the path committed so far is returned with a status telling the timeout).
C16_TimeoutStopsLoop ==
    [][(pc = "loop" /\ elapsed > TimeBudget) => iteration' = iteration]_vars

\* C18: scoring reads the target at the index-scaled coordinates of the canvas
\* pixel: for every pixel (y, x) of every line rasterised for scoring, the
\* position [y, x] the code reads is the index-scaled one,
\* [y * rows / canvas_size, x * cols / canvas_size], and no read is out of range.
C18_TargetIndexScaled ==
    /\ pc # "raised"
    /\ \A k \in DOMAIN line_cache :
          \A i \in 1 .. Len(line_cache[k]) :
              LET x == line_cache[k][i][1]
                  y == line_cache[k][i][2]
              IN  << y, x >> = << (y * target_image.rows) \div CanvasSize,
                                 (x * target_image.cols) \div CanvasSize >>

C17_NoSharedState ==
    /\ \A r1, r2 \in Requests :
          r1 # r2 => ObjectsOf(r1) \cap ObjectsOf(r2) = {}
    /\ \A w1, w2 \in writers :
          (w1[2] = w2[2] /\ w1[2] # ModuleLevel) => w1[1] = w2[1]

\* two requests are in their loops at once, their objects created in
\* alternation, and both have run iterations
C17_Witness ==
    /\ \A r \in Requests : req_pc[r] = "loop" /\ req_done[r] >= 1
    /\ req_refs[1].generator < req_refs[2].generator
    /\ req_refs[2].generator < req_refs[1].canvas
    /\ req_refs[1].canvas < req_refs[2].canvas

\* C20 (only when): a monitoring thread never calls lock_screen while the time
\* since the last detected face is below timeout_seconds.
C20_LockOnlyAfterTimeout ==
    [][lock_calls' > lock_calls =>
          (last_detection = None \/ now - last_detection >= TimeoutTicks)]_vars

\* C21: for endpoints inside the canvas bresenham_line returns a sequence that
\* starts at (x1, y1), ends at (x2, y2), holds no point twice, and whose
\* consecutive points differ, by at most 1 on each axis; for any endpoints,
\* no returned point lies outside [0, canvas_size) on either axis.
C21_LineConnected ==
    line_pc = "returned" =>
        LET p == line_s.points
        IN  /\ \A i \in 1 .. Len(p) : InCanvas(p[i][1], p[i][2])
            /\ (InCanvas(line_args[1], line_args[2])
                    /\ InCanvas(line_args[3], line_args[4])) =>
                  /\ Len(p) >= 1
                  /\ p[1] = << line_args[1], line_args[2] >>
                  /\ p[Len(p)] = << line_args[3], line_args[4] >>
                  /\ \A i, j \in 1 .. Len(p) : i # j => p[i] # p[j]
                  /\ \A i \in 1 .. (Len(p) - 1) :
                        /\ p[i + 1] # p[i]
                        /\ Abs(p[i + 1][1] - p[i][1]) <= 1
                        /\ Abs(p[i + 1][2] - p[i][2]) <= 1

\* a call between two canvas points that differ on both axes, by different
\* amounts, has returned
C21_Witness ==
    /\ line_pc = "returned"
    /\ InCanvas(line_args[1], line_args[2])
    /\ InCanvas(line_args[3], line_args[4])
    /\ Abs(line_args[3] - line_args[1]) > Abs(line_args[4] - line_args[2])
    /\ Abs(line_args[4] - line_args[2]) > 1

\* C28: bresenham_line terminates for every pair of integer endpoints: the loop
\* never steps past the endpoint on either axis, it breaks at (x2, y2), and it
\* does so after exactly max(|x2 - x1|, |y2 - y1|) steps.
C28_LineTerminates ==
    /\ [](line_pc # "idle" =>
            /\ Min(line_args[1], line_args[3]) <= line_s.x
            /\ line_s.x <= Max(line_args[1], line_args[3])
            /\ Min(line_args[2], line_args[4]) <= line_s.y
            /\ line_s.y <= Max(line_args[2], line_args[4]))
    /\ [](line_pc = "returned" =>
            /\ line_s.x = line_args[3]
            /\ line_s.y = line_args[4]
            /\ line_passes = Max(Abs(line_args[3] - line_args[1]),
                                 Abs(line_args[4] - line_args[2])))
    /\ (line_pc = "while" ~> line_pc = "returned")

\* a call whose endpoints both lie outside the canvas, on different sides of
\* it, has returned after crossing it
C28_Witness ==
    /\ line_pc = "returned"
    /\ ~ InCanvas(line_args[1], line_args[2])
    /\ ~ InCanvas(line_args[3], line_args[4])
    /\ line_passes > CanvasSize
    /\ Len(line_s.points) >= CanvasSize - 1

\* C22: calculate_line_score returns the mean, over the line's pixels on the
\* canvas, of min(target - current, opacity) where target > current and of
\* -0.5 * (min(255, current + opacity) - target) elsewhere; a line with no such
\* pixel scores 0, which is not above min_score_threshold, so it is not committed.
C22_ScoreIsMean ==
    score_args # << >> =>
        LET line == line_cache[ConnectionKey(score_args[1], score_args[2])]
            valid == { i \in 1 .. Len(line) : InCanvas(line[i][1], line[i][2]) }
            Twice(i) ==
                LET t == TargetAt(target_image, line[i][2], line[i][1])
                    c == current_canvas[At(line[i][2], line[i][1])]
                IN  IF t > c
                    THEN 2 * Min(t - c, LineOpacity)
                    ELSE 0 - (Min(MaxDarkness, c + LineOpacity) - t)
            RECURSIVE Sum(_)
            Sum(S) == IF S = {} THEN 0
                      ELSE LET i == CHOOSE j \in S : TRUE
                           IN  Twice(i) + Sum(S \ { i })
        IN  /\ score_ret.den > 0
            /\ valid # {} =>
                  score_ret.num2 * Cardinality(valid) = Sum(valid) * score_ret.den
            /\ valid = {} =>
                  score_ret.num2 = 0 /\ ~ ScoreGT(score_ret, MinScoreThreshold)

\* a line was scored that crosses pixels still wanting thread and pixels that
\* have enough
C22_Witness ==
    /\ score_args # << >>
    /\ score_ret.num2 # 0
    /\ LET line == line_cache[ConnectionKey(score_args[1], score_args[2])]
           Wanting(i) == TargetAt(target_image, line[i][2], line[i][1])
                             > current_canvas[At(line[i][2], line[i][1])]
       IN  /\ \E i \in 1 .. Len(line) : Wanting(i)
           /\ \E i \in 1 .. Len(line) : ~ Wanting(i)

\* a line with no pixel on the canvas was scored
C22_WitnessMiss ==
    /\ score_args # << >>
    /\ line_cache[ConnectionKey(0, 1)] = << >>

\* the candidates of an iteration: the nails that differ from current_nail, are
\* at least the minimum circular distance away, and whose normalised pair with
\* current_nail is not in the recent set
Survivors ==
    { n \in NailIds :
        /\ n # current_nail
        /\ Min(Abs(n - current_nail), num_nails - Abs(n - current_nail))
               >= MinDistance
        /\ << Min(current_nail, n), Max(current_nail, n) >>
               \notin recent_connections }

\* C23: an iteration commits if and only if some candidate survives the filters
\* and the best score is strictly greater than min_score_threshold; a commit
\* appends exactly one entry {current_nail, best_nail}, darkens exactly the
\* pixels of that line by line_opacity (clamped at 255), leaves the normalised
\* pair in the recent set, sets current_nail to best_nail and resets the
\* low-score count to 0.
C23_CommitIffAndEffects ==
    [][(pc = "loop" /\ iteration' = iteration + 1) =>
          LET good == { n \in Survivors :
                          ScoreGT(scan_scores'[n], MinScoreThreshold) }
              key  == << Min(current_nail, current_nail'),
                         Max(current_nail, current_nail') >>
              line == { line_cache'[key][i] : i \in 1 .. Len(line_cache'[key]) }
          IN  /\ (commits' = commits + 1) <=> (good # {})
              /\ (commits' = commits + 1) =>
                    /\ current_nail' \in good
                    /\ paths' = Append(paths, [startIndex |-> current_nail,
                                               endIndex |-> current_nail'])
                    /\ \A q \in Pixels :
                          current_canvas'[q] =
                              IF << PixelX(q), PixelY(q) >> \in line
                              THEN Min(MaxDarkness, current_canvas[q] + LineOpacity)
                              ELSE current_canvas[q]
                    /\ key \in recent_connections'
                    /\ low_score_count' = 0]_vars

\* C24: the nail committed in an iteration has the maximum score among the
\* candidates that survive the filters, and among the candidates that tie for
\* the maximum it is the one with the lowest index.
C24_CommitsFirstMaximum ==
    [][(pc = "loop" /\ commits' = commits + 1) =>
          LET best == paths'[Len(paths')].endIndex
              Equal(a, b) == a.num2 * b.den = b.num2 * a.den
          IN  /\ DOMAIN scan_scores' = Survivors
              /\ best \in Survivors
              /\ \A n \in Survivors :
                    /\ ~ ScoreGT(scan_scores'[n], scan_scores'[best])
                    /\ Equal(scan_scores'[n], scan_scores'[best]) => best <= n]_vars

\* a commit has just chosen the lower of two candidates that tied for the
\* maximum, with a third candidate scoring less
C24_Witness ==
    /\ pc = "loop"
    /\ commits >= 1
    /\ since_commit = 0
    /\ \E n \in DOMAIN scan_scores :
          /\ n > current_nail
          /\ scan_scores[n] = scan_scores[current_nail]
    /\ \E n \in DOMAIN scan_scores :
          ScoreGT(scan_scores[current_nail], scan_scores[n])

\* C25: an iteration that neither commits nor restarts (the count stays at or
\* below 50) increments the low-score count by exactly 1 and leaves
\* current_nail, the path, the canvas and the recent set unchanged; the nail
\* positions never change once generated.
C25_LowScoreFrame ==
    /\ [][(/\ pc = "loop"
           /\ iteration' = iteration + 1
           /\ since_commit' = since_commit + 1
           /\ low_score_count < StuckBound)
          => (/\ low_score_count' = low_score_count + 1
              /\ current_nail' = current_nail
              /\ paths' = paths
              /\ current_canvas' = current_canvas
              /\ recent_connections' = recent_connections)]_vars
    /\ [][pc # "constructed" => nails' = nails]_vars

\* iterations have failed since the last commit, with no restart since, while
\* the recent set holds a pair and the canvas is darkened
C25_Witness ==
    /\ pc = "loop"
    /\ commits >= 1
    /\ low_score_count >= 2
    /\ low_score_count = since_commit
    /\ recent_connections # {}
    /\ \E p \in Pixels : current_canvas[p] > 0

\* C26: in every reachable state each canvas pixel equals
\* min(255, line_opacity * k), where k is the number of path entries whose
\* cached line contains that pixel: only committed lines write the canvas.
C26_CanvasCountsLines ==
    current_canvas # << >> =>
        LET lines == [i \in 1 .. Len(paths) |->
                         PointSet(line_cache[ConnectionKey(paths[i].startIndex,
                                                           paths[i].endIndex)])]
            drawn == UNION { lines[i] : i \in 1 .. Len(paths) }
        IN  /\ \A q \in Pixels :
                  current_canvas[q] # 0 => << PixelX(q), PixelY(q) >> \in drawn
            /\ \A pt \in drawn :
                  current_canvas[At(pt[2], pt[1])] =
                      Min(MaxDarkness,
                          LineOpacity * Cardinality({ i \in 1 .. Len(paths) :
                                                        pt \in lines[i] }))

\* some pixel carries one line and some pixel carries more lines than the
\* clamp lets through
C26_Witness ==
    /\ current_canvas # << >>
    /\ \E q \in Pixels : current_canvas[q] = LineOpacity
    /\ \E q \in Pixels :
          /\ current_canvas[q] = MaxDarkness
          /\ Cardinality({ i \in 1 .. Len(paths) :
                  << PixelX(q), PixelY(q) >> \in
                      PointSet(line_cache[ConnectionKey(paths[i].startIndex,
                                                        paths[i].endIndex)]) })
                 * LineOpacity > MaxDarkness

\* C27: at the start of every loop iteration the low-score count lies in
\* 0 .. 50; every commit and every restart resets it to 0; and at no point of
\* an iteration does it hold a value above 51.
C27_LowScoreCountBounded ==
    /\ [](pc = "loop" => (0 <= low_score_count /\ low_score_count <= StuckBound))
    /\ [](count_peak <= StuckBound + 1)
    /\ [][(/\ pc = "loop"
           /\ iteration' = iteration + 1
           /\ \/ commits' = commits + 1
              \/ low_score_count = StuckBound)
          => low_score_count' = 0]_vars

\* the count has been reset by a commit, has later reached 51 within an
\* iteration and has been reset by the restart
C27_Witness ==
    /\ pc = "loop"
    /\ commits >= 1
    /\ count_peak = StuckBound + 1
    /\ low_score_count = 0
    /\ since_commit > StuckBound

\* C29: at most one monitoring_loop thread is at work: once a later
\* start_monitoring has started a new thread, a thread started earlier does no
\* further detection.
C29_OneMonitoringThread ==
    [][\A t \in Threads :
          (thread_pc[t] = "detect" /\ thread_pc'[t] = "record") =>
              \A u \in Threads : u > t => thread_pc[u] = "unstarted"]_vars

\* C30: once stop_monitoring has cleared is_monitoring and released the
\* camera, no monitoring thread calls lock_screen, whatever point of its loop
\* iteration the thread had reached.
C30_NoLockAfterStop ==
    [][lock_calls' > lock_calls => is_monitoring]_vars

====
